---- MODULE Spec2Model ----
(***************************************************************************)
(* Track Timer Pro (src/App.tsx): the athlete list held by the App         *)
(* component, the lap calculator, the timer commands, the animation-frame  *)
(* refresh and the localStorage slot the list is saved to and loaded from. *)
(***************************************************************************)
EXTENDS Integers, Sequences, FiniteSets, TLC

VARIABLES
    athletes,   \* useState<Athlete[]>: the in-memory athlete list
    nextId,     \* useRef: the id the next added athlete gets
    storage,    \* localStorage slot 'trackTimerAthletes': Null or <<text>>
    now,        \* the host clock, what Date.now() returns
    last        \* history: the last command and the athlete it addressed

vars == <<athletes, nextId, storage, now, last>>

(* ------------------------------ bounds -------------------------------- *)
MaxClock == 2       \* the clock runs from Epoch to MaxClock
MaxLaps == 2        \* the list never holds more than MaxLaps laps in all
MaxId == 2          \* at most MaxId athletes are ever added in one run

(* --------------------------- program constants ------------------------ *)
LapDistanceDefault == 400

(* A value that may be absent (null, NaN): <<>> when absent, <<v>> when present. *)
Null == <<>>
Some(v) == <<v>>

\* The clock value at which the page is first opened: Date.now() is positive.
Epoch == 1

(* ------------------------------ inputs -------------------------------- *)
\* Text typed into the form, as sequences of characters.
NameInputs == { <<>>, <<" ">>, <<"A">>, <<" ", "A", " ">> }
TargetInputs == { <<>>, <<"3">> }
LapInputs == { <<>>, <<"0">>, <<"2">>, <<"-", "1">> }
TimeInputs == { <<>> }
\* Values the edit form of a card hands to handleUpdateAthlete.
EditNames == { <<"A">> }
EditTargets == { 0, 2 }
EditLaps == { 1 }
EditTimes == { 0 }

(* ---------------------------- pure helpers ---------------------------- *)
Digits == <<"0", "1", "2", "3", "4", "5", "6", "7", "8", "9">>
IsDigit(c) == \E d \in DOMAIN Digits : Digits[d] = c
DigitValue(c) == (CHOOSE d \in DOMAIN Digits : Digits[d] = c) - 1

RECURSIVE SkipSpaces(_)
SkipSpaces(s) == IF s # <<>> /\ Head(s) = " " THEN SkipSpaces(Tail(s)) ELSE s

RECURSIVE ParseDigits(_, _, _)
\* Reads digits from s; acc is the value so far, seen whether a digit was read.
ParseDigits(s, acc, seen) ==
    IF s # <<>> /\ IsDigit(Head(s))
    THEN ParseDigits(Tail(s), acc * 10 + DigitValue(Head(s)), TRUE)
    ELSE IF seen THEN Some(acc) ELSE Null

\* parseInt(s, 10): leading blanks, an optional sign, then digits; NaN (Null) without a digit.
ParseInt(s) ==
    LET t == SkipSpaces(s)
        neg == t # <<>> /\ Head(t) = "-"
        u == IF t # <<>> /\ (Head(t) = "-" \/ Head(t) = "+") THEN Tail(t) ELSE t
        r == ParseDigits(u, 0, FALSE)
    IN  IF r = Null THEN Null ELSE IF neg THEN Some(0 - r[1]) ELSE r

\* x || d on a number: d when x is NaN or 0.
OrElse(x, d) == IF x = Null \/ x[1] = 0 THEN d ELSE x[1]

RECURSIVE DropTrailingSpaces(_)
DropTrailingSpaces(s) ==
    IF s # <<>> /\ s[Len(s)] = " " THEN DropTrailingSpaces(SubSeq(s, 1, Len(s) - 1)) ELSE s

\* String.prototype.trim
Trim(s) == DropTrailingSpaces(SkipSpaces(s))

\* parseTime of utils/formatters: milliseconds, 0 for text that is no time.
ParseTime(s) == 0

(* ------------------------------ Athlete ------------------------------- *)
\* The athlete of a list with the given id, as a set of list positions.
Positions(list, id) == { i \in DOMAIN list : list[i].id = id }
Ids(list) == { list[i].id : i \in DOMAIN list }

\* The number of laps the list holds.
RECURSIVE TotalLaps(_)
TotalLaps(list) == IF list = <<>> THEN 0 ELSE Len(Head(list).laps) + TotalLaps(Tail(list))

(* --------------------------- Lap calculator --------------------------- *)
\* calculateNextLap without the check that the race is complete.
calculateNextLap_NoFinishCheck(athlete, currentTime) ==
    LET lastLapDistance == IF Len(athlete.laps) > 0
                           THEN athlete.laps[Len(athlete.laps)].totalDistance ELSE 0
        stepped == lastLapDistance + athlete.lapDistance
        newTotalDistance ==
            IF athlete.targetDistance > 0
            THEN IF lastLapDistance < athlete.targetDistance /\ stepped >= athlete.targetDistance
                 THEN athlete.targetDistance
                 ELSE stepped
            ELSE 0
    IN  Append(athlete.laps,
               [lapNumber |-> Len(athlete.laps) + 1, totalTime |-> currentTime,
                totalDistance |-> newTotalDistance, timestamp |-> now])

\* calculateNextLap without the snap of the final lap to the target distance.
calculateNextLap_NoSnap(athlete, currentTime) ==
    LET lastLapDistance == IF Len(athlete.laps) > 0
                           THEN athlete.laps[Len(athlete.laps)].totalDistance ELSE 0
        newTotalDistance ==
            IF athlete.targetDistance > 0 THEN lastLapDistance + athlete.lapDistance ELSE 0
    IN  IF athlete.targetDistance > 0 /\ lastLapDistance >= athlete.targetDistance
        THEN athlete.laps
        ELSE Append(athlete.laps,
                    [lapNumber |-> Len(athlete.laps) + 1, totalTime |-> currentTime,
                     totalDistance |-> newTotalDistance, timestamp |-> now])

\* calculateNextLap numbering the new lap laps.length instead of laps.length + 1.
calculateNextLap_NumberFromZero(athlete, currentTime) ==
    LET lastLapDistance == IF Len(athlete.laps) > 0
                           THEN athlete.laps[Len(athlete.laps)].totalDistance ELSE 0
        stepped == lastLapDistance + athlete.lapDistance
        newTotalDistance ==
            IF athlete.targetDistance > 0
            THEN IF lastLapDistance < athlete.targetDistance /\ stepped >= athlete.targetDistance
                 THEN athlete.targetDistance
                 ELSE stepped
            ELSE 0
    IN  IF athlete.targetDistance > 0 /\ lastLapDistance >= athlete.targetDistance
        THEN athlete.laps
        ELSE Append(athlete.laps,
                    [lapNumber |-> Len(athlete.laps), totalTime |-> currentTime,
                     totalDistance |-> newTotalDistance, timestamp |-> now])

\* calculateNextLap: the athlete's laps, with the next lap appended unless the
\* race is complete.
calculateNextLap(athlete, currentTime) ==
    LET lastLap == IF Len(athlete.laps) > 0 THEN Some(athlete.laps[Len(athlete.laps)]) ELSE Null
        lastLapDistance == IF lastLap # Null THEN lastLap[1].totalDistance ELSE 0
        lapNumber == Len(athlete.laps) + 1
        stepped == lastLapDistance + athlete.lapDistance
        newTotalDistance ==
            IF athlete.targetDistance > 0
            THEN IF lastLapDistance < athlete.targetDistance /\ stepped >= athlete.targetDistance
                 THEN athlete.targetDistance
                 ELSE stepped
            ELSE 0
        newLap == [lapNumber |-> lapNumber, totalTime |-> currentTime,
                   totalDistance |-> newTotalDistance, timestamp |-> now]
    IN  IF athlete.targetDistance > 0 /\ lastLapDistance >= athlete.targetDistance
        THEN athlete.laps
        ELSE Append(athlete.laps, newLap)

(* ----------------------------- Persistence ---------------------------- *)
\* JSON.stringify of a lap and of an athlete: the fields in declaration order,
\* null for an absent startTime.
StringifyLap(lap) == <<lap.lapNumber, lap.totalTime, lap.totalDistance, lap.timestamp>>
StringifyAthlete(a) ==
    <<a.id, a.name, a.startTime, a.time,
      [i \in DOMAIN a.laps |-> StringifyLap(a.laps[i])],
      a.isRunning, a.targetDistance, a.lapDistance, a.targetTime, a.pbDistance, a.pbTime>>
JSONstringify(list) == [i \in DOMAIN list |-> StringifyAthlete(list[i])]

\* JSON.parse of the saved text.
ParseLap(t) == [lapNumber |-> t[1], totalTime |-> t[2], totalDistance |-> t[3], timestamp |-> t[4]]
ParseAthlete(t) ==
    [id |-> t[1], name |-> t[2], startTime |-> t[3], time |-> t[4],
     laps |-> [i \in DOMAIN t[5] |-> ParseLap(t[5][i])],
     isRunning |-> t[6], targetDistance |-> t[7], lapDistance |-> t[8],
     targetTime |-> t[9], pbDistance |-> t[10], pbTime |-> t[11]]
JSONparse(text) == [i \in DOMAIN text |-> ParseAthlete(text[i])]

\* The normalisation of a loaded athlete without the stop of its timer.
NormalizeLoaded_KeepRunning(athlete) ==
    [athlete EXCEPT !.lapDistance = IF athlete.lapDistance = 0 THEN LapDistanceDefault
                                    ELSE athlete.lapDistance]

\* The normalisation of one loaded athlete: stopped, lapDistance and lap
\* timestamps defaulted.
NormalizeLoaded(athlete) ==
    [athlete EXCEPT !.isRunning = FALSE,
                    !.startTime = Null,
                    !.lapDistance = IF athlete.lapDistance = 0 THEN LapDistanceDefault
                                    ELSE athlete.lapDistance,
                    !.laps = [i \in DOMAIN athlete.laps |->
                                [athlete.laps[i] EXCEPT !.timestamp =
                                    IF athlete.laps[i].timestamp = 0 THEN 0
                                    ELSE athlete.laps[i].timestamp]]]

\* The useState initializer: the list loaded from the slot, [] when the slot is empty.
LoadAthletes(slot) ==
    IF slot # Null
    THEN [i \in DOMAIN JSONparse(slot[1]) |-> NormalizeLoaded(JSONparse(slot[1])[i])]
    ELSE <<>>

\* The save effect that removes the slot's item when setItem throws.
SaveAthletes_ClearOnFailure(list, ok) ==
    IF ok THEN Some(JSONstringify(list)) ELSE Null

\* The save effect: the slot after the list is saved; ok is whether setItem succeeded.
SaveAthletes(list, ok) == IF ok THEN Some(JSONstringify(list)) ELSE storage

\* The initial value of the nextId ref.
InitialNextId(list) ==
    IF Len(list) > 0
    THEN (CHOOSE m \in Ids(list) : \A j \in Ids(list) : j <= m) + 1
    ELSE 0

(* ------------------------- per-athlete updates ------------------------ *)
\* updateTimers, for one athlete (a startTime of 0 is falsy).
RefreshAthlete(athlete) ==
    IF athlete.isRunning /\ athlete.startTime # Null /\ athlete.startTime # Some(0)
    THEN [athlete EXCEPT !.time = now - athlete.startTime[1]]
    ELSE athlete

\* handleStartStop whose Start restarts the clock: startTime = Date.now().
StartStopAthlete_RestartClock(athlete) ==
    IF athlete.isRunning
    THEN [athlete EXCEPT !.laps = calculateNextLap(athlete, athlete.time),
                         !.isRunning = FALSE,
                         !.startTime = Null]
    ELSE [athlete EXCEPT !.isRunning = TRUE, !.startTime = Some(now)]

\* handleStartStop whose Stop leaves startTime set.
StartStopAthlete_KeepStartTime(athlete) ==
    IF athlete.isRunning
    THEN [athlete EXCEPT !.laps = calculateNextLap(athlete, athlete.time),
                         !.isRunning = FALSE]
    ELSE [athlete EXCEPT !.isRunning = TRUE, !.startTime = Some(now - athlete.time)]

\* handleStartStop whose Stop records no closing lap.
StartStopAthlete_NoClosingLap(athlete) ==
    IF athlete.isRunning
    THEN [athlete EXCEPT !.isRunning = FALSE, !.startTime = Null]
    ELSE [athlete EXCEPT !.isRunning = TRUE, !.startTime = Some(now - athlete.time)]

\* handleStartStop, for the athlete addressed.
StartStopAthlete(athlete) ==
    IF athlete.isRunning
    THEN [athlete EXCEPT !.laps = calculateNextLap(athlete, athlete.time),
                         !.isRunning = FALSE,
                         !.startTime = Null]
    ELSE [athlete EXCEPT !.isRunning = TRUE, !.startTime = Some(now - athlete.time)]

\* handleLap without the check that the athlete is running.
LapAthlete_NoRunningCheck(athlete) ==
    [athlete EXCEPT !.laps = calculateNextLap(athlete, athlete.time)]

\* handleLap, for the athlete addressed.
LapAthlete(athlete) ==
    IF athlete.isRunning
    THEN [athlete EXCEPT !.laps = calculateNextLap(athlete, athlete.time)]
    ELSE athlete

\* handleReset that clears time and laps but leaves the timer running.
ResetAthlete_KeepRunning(athlete) ==
    [athlete EXCEPT !.time = 0, !.laps = <<>>]

\* handleReset, for the athlete addressed.
ResetAthlete(athlete) ==
    [athlete EXCEPT !.time = 0, !.laps = <<>>, !.isRunning = FALSE, !.startTime = Null]

\* handleUpdateAthlete that also stops the timer of the athlete it edits.
UpdateAthlete_StopsTimer(athlete, updatedData) ==
    [athlete EXCEPT !.name = updatedData.name,
                    !.targetDistance = updatedData.targetDistance,
                    !.targetTime = updatedData.targetTime,
                    !.pbDistance = updatedData.targetDistance,
                    !.pbTime = updatedData.pbTime,
                    !.lapDistance = updatedData.lapDistance,
                    !.isRunning = FALSE,
                    !.startTime = Null]

\* handleUpdateAthlete that leaves pbDistance as it was.
UpdateAthlete_KeepsPb(athlete, updatedData) ==
    [athlete EXCEPT !.name = updatedData.name,
                    !.targetDistance = updatedData.targetDistance,
                    !.targetTime = updatedData.targetTime,
                    !.pbTime = updatedData.pbTime,
                    !.lapDistance = updatedData.lapDistance]

\* handleUpdateAthlete, for the athlete addressed.
UpdateAthlete(athlete, updatedData) ==
    [athlete EXCEPT !.name = updatedData.name,
                    !.targetDistance = updatedData.targetDistance,
                    !.targetTime = updatedData.targetTime,
                    !.pbDistance = updatedData.targetDistance,
                    !.pbTime = updatedData.pbTime,
                    !.lapDistance = updatedData.lapDistance]

\* handleAddAthlete taking the id from the length of the list instead of nextId.
NewAthlete_IdFromLength(name, targetDistance, lapDistance, targetTime, pbTime) ==
    [id |-> Len(athletes),
     name |-> Trim(name),
     startTime |-> Null,
     time |-> 0,
     laps |-> <<>>,
     isRunning |-> FALSE,
     targetDistance |-> OrElse(ParseInt(targetDistance), 0),
     lapDistance |-> OrElse(ParseInt(lapDistance), LapDistanceDefault),
     targetTime |-> ParseTime(targetTime),
     pbDistance |-> OrElse(ParseInt(targetDistance), 0),
     pbTime |-> ParseTime(pbTime)]

\* The athlete handleAddAthlete builds from the form.
NewAthlete(name, targetDistance, lapDistance, targetTime, pbTime) ==
    [id |-> nextId,
     name |-> Trim(name),
     startTime |-> Null,
     time |-> 0,
     laps |-> <<>>,
     isRunning |-> FALSE,
     targetDistance |-> OrElse(ParseInt(targetDistance), 0),
     lapDistance |-> OrElse(ParseInt(lapDistance), LapDistanceDefault),
     targetTime |-> ParseTime(targetTime),
     pbDistance |-> OrElse(ParseInt(targetDistance), 0),
     pbTime |-> ParseTime(pbTime)]

(* ------------------------------ history ------------------------------- *)
\* What the last step was: the command, the id it addressed (-1 when none),
\* whether the addressed athlete was running, how many laps it had and what its
\* time was before the command, whether the step before was the Start of the same
\* athlete (afterStart), and whether that Start found it with time 0 and no laps
\* (afterFreshStart).
NoTarget(op) ==
    [op |-> op, id |-> -1, wasRunning |-> FALSE, lapsBefore |-> 0, timeBefore |-> 0,
     afterStart |-> FALSE, afterFreshStart |-> FALSE]

Done(op, id) ==
    LET target == IF Positions(athletes, id) # {}
                  THEN Some(athletes[CHOOSE i \in Positions(athletes, id) : TRUE])
                  ELSE Null
        afterStart == op \in {"stop", "lap"} /\ last.op = "start" /\ last.id = id
    IN  [op |-> op, id |-> id,
         wasRunning |-> target # Null /\ target[1].isRunning,
         lapsBefore |-> IF target # Null THEN Len(target[1].laps) ELSE 0,
         timeBefore |-> IF target # Null THEN target[1].time ELSE 0,
         afterStart |-> afterStart,
         afterFreshStart |-> afterStart /\ last.lapsBefore = 0 /\ last.timeBefore = 0]

\* The ids a command may address: those ever assignable in a run.
CommandIds == 0 .. (MaxId - 1)

(* ------------------------------- Init --------------------------------- *)
\* First visit: the slot is empty, the list loads as [], and the save effect of
\* the first render has written it.
Init ==
    /\ athletes = LoadAthletes(Null)
    /\ nextId = InitialNextId(LoadAthletes(Null))
    /\ storage = Some(JSONstringify(LoadAthletes(Null)))
    /\ now = Epoch
    /\ last = NoTarget("load")

(* ------------------------------ actions ------------------------------- *)
\* Every action that changes the list ends with the save effect; ok is whether
\* localStorage.setItem succeeded in it.
\* The host clock moves on.
Advance ==
    /\ now < MaxClock
    /\ now' = now + 1
    /\ last' = NoTarget("advance")
    /\ UNCHANGED <<athletes, nextId, storage>>

\* updateTimers on an animation frame, then the save effect.
Tick(ok) ==
        /\ athletes' = [i \in DOMAIN athletes |-> RefreshAthlete(athletes[i])]
        /\ storage' = SaveAthletes(athletes', ok)
        /\ last' = NoTarget("tick")
        /\ UNCHANGED <<nextId, now>>

\* handleAddAthlete with the form filled in, then the save effect.
HandleAddAthlete(ok) ==
    \E name \in NameInputs, targetDistance \in TargetInputs, lapDistance \in LapInputs,
       targetTime \in TimeInputs, pbTime \in TimeInputs :
        /\ Trim(name) # <<>>
        /\ nextId < MaxId
        /\ athletes' = Append(athletes,
               NewAthlete(name, targetDistance, lapDistance, targetTime, pbTime))
        /\ nextId' = nextId + 1
        /\ storage' = SaveAthletes(athletes', ok)
        /\ last' = Done("add", nextId)
        /\ UNCHANGED now

\* handleRemoveAthlete, then the save effect.
HandleRemoveAthlete(ok) ==
    \E id \in CommandIds :
        /\ athletes' = SelectSeq(athletes, LAMBDA athlete : athlete.id # id)
        /\ storage' = SaveAthletes(athletes', ok)
        /\ last' = Done("remove", id)
        /\ UNCHANGED <<nextId, now>>

\* handleStartStop, then the save effect.
HandleStartStop(ok) ==
    \E id \in CommandIds :
        /\ athletes' = [i \in DOMAIN athletes |->
               IF athletes[i].id = id THEN StartStopAthlete(athletes[i])
               ELSE athletes[i]]
        /\ TotalLaps(athletes') <= MaxLaps
        /\ storage' = SaveAthletes(athletes', ok)
        /\ last' = IF \E i \in Positions(athletes, id) : athletes[i].isRunning
                   THEN Done("stop", id)
                   ELSE Done("start", id)
        /\ UNCHANGED <<nextId, now>>

\* handleLap, then the save effect.
HandleLap(ok) ==
    \E id \in CommandIds :
        /\ athletes' = [i \in DOMAIN athletes |->
               IF athletes[i].id = id THEN LapAthlete(athletes[i])
               ELSE athletes[i]]
        /\ TotalLaps(athletes') <= MaxLaps
        /\ storage' = SaveAthletes(athletes', ok)
        /\ last' = Done("lap", id)
        /\ UNCHANGED <<nextId, now>>

\* handleReset without the id test: every athlete is reset.
HandleReset_All(ok) ==
    \E id \in CommandIds :
        /\ athletes' = [i \in DOMAIN athletes |-> ResetAthlete(athletes[i])]
        /\ storage' = SaveAthletes(athletes', ok)
        /\ last' = Done("reset", id)
        /\ UNCHANGED <<nextId, now>>

\* handleReset, then the save effect.
HandleReset(ok) ==
    \E id \in CommandIds :
        /\ athletes' = [i \in DOMAIN athletes |->
               IF athletes[i].id = id THEN ResetAthlete(athletes[i])
               ELSE athletes[i]]
        /\ storage' = SaveAthletes(athletes', ok)
        /\ last' = Done("reset", id)
        /\ UNCHANGED <<nextId, now>>

\* handleUpdateAthlete with the values of the edit form, then the save effect.
HandleUpdateAthlete(ok) ==
    \E id \in CommandIds, name \in EditNames, targetDistance \in EditTargets,
       lapDistance \in EditLaps, targetTime \in EditTimes, pbTime \in EditTimes :
        LET updatedData == [name |-> name, targetDistance |-> targetDistance,
                            targetTime |-> targetTime, pbTime |-> pbTime,
                            lapDistance |-> lapDistance]
        IN  /\ athletes' = [i \in DOMAIN athletes |->
                   IF athletes[i].id = id THEN UpdateAthlete(athletes[i], updatedData)
                   ELSE athletes[i]]
            /\ storage' = SaveAthletes(athletes', ok)
            /\ last' = Done("edit", id)
            /\ UNCHANGED <<nextId, now>>

\* The page is reloaded: the list is loaded from the slot, the id counter is
\* seeded from it, and the save effect of the first render runs.
Reload(ok) ==
        /\ athletes' = LoadAthletes(storage)
        /\ nextId' = InitialNextId(athletes')
        /\ storage' = SaveAthletes(athletes', ok)
        /\ last' = NoTarget("load")
        /\ UNCHANGED now

Next(ok) ==
    \/ Advance
    \/ Tick(ok)
    \/ HandleAddAthlete(ok)
    \/ HandleRemoveAthlete(ok)
    \/ HandleStartStop(ok)
    \/ HandleLap(ok)
    \/ HandleReset(ok)
    \/ HandleUpdateAthlete(ok)
    \/ Reload(ok)

\* The application with a slot that accepts every write.
Spec == Init /\ [][Next(TRUE)]_vars

\* The application with a slot whose writes may throw (quota exceeded).
SpecQuota == Init /\ [][\E ok \in BOOLEAN : Next(ok)]_vars

\* The application in which an athlete is edited only while it has no laps, that
\* is, not during a race.
NextRace(ok) ==
    \/ Advance
    \/ Tick(ok)
    \/ HandleAddAthlete(ok)
    \/ HandleRemoveAthlete(ok)
    \/ HandleStartStop(ok)
    \/ HandleLap(ok)
    \/ HandleReset(ok)
    \/ (HandleUpdateAthlete(ok) /\ last'.lapsBefore = 0)
    \/ Reload(ok)

SpecRace == Init /\ [][NextRace(TRUE)]_vars

\* The application used for one athlete at a time over a longer stretch of the
\* host clock: an athlete is added only to an empty list.
SoloClock == 4

AdvanceSolo ==
    /\ now < SoloClock
    /\ now' = now + 1
    /\ last' = NoTarget("advance")
    /\ UNCHANGED <<athletes, nextId, storage>>

NextSolo(ok) ==
    \/ AdvanceSolo
    \/ Tick(ok)
    \/ (athletes = <<>> /\ HandleAddAthlete(ok))
    \/ HandleRemoveAthlete(ok)
    \/ HandleStartStop(ok)
    \/ HandleLap(ok)
    \/ HandleReset(ok)
    \/ HandleUpdateAthlete(ok)
    \/ Reload(ok)

SpecSolo == Init /\ [][NextSolo(TRUE)]_vars

\* One athlete at a time, within one instant of the host clock, with a slot whose
\* writes may throw (quota exceeded).
NextSoloQuota(ok) ==
    \/ Tick(ok)
    \/ (athletes = <<>> /\ HandleAddAthlete(ok))
    \/ HandleRemoveAthlete(ok)
    \/ HandleStartStop(ok)
    \/ HandleLap(ok)
    \/ HandleReset(ok)
    \/ HandleUpdateAthlete(ok)
    \/ Reload(ok)

SpecSoloQuota == Init /\ [][\E ok \in BOOLEAN : NextSoloQuota(ok)]_vars

(* ------------------------------- export ------------------------------- *)
\* The number of clock units in a calendar day.
DayLength == 2
\* The values of the two date inputs: empty, or a calendar day.
DateInputs == { Null } \cup { Some(d) : d \in 0 .. (SoloClock \div DayLength) }

\* new Date(d).setHours(0, 0, 0, 0) and new Date(d).setHours(23, 59, 59, 999).
StartOfDay(d) == d * DayLength
EndOfDay(d) == d * DayLength + (DayLength - 1)

\* The lap's timestamp lies in the range of the two date inputs; an empty start
\* date is 0, an empty end date is Infinity.
LapInRange(lap, startDate, endDate) ==
    LET lapTimestamp == lap.timestamp
        start == IF startDate # Null THEN StartOfDay(startDate[1]) ELSE 0
    IN  /\ lapTimestamp >= start
        /\ endDate # Null => lapTimestamp <= EndOfDay(endDate[1])

\* The positions in athlete.laps of the laps in range, in order.
LapsInRange(athlete, startDate, endDate) ==
    SelectSeq([k \in DOMAIN athlete.laps |-> k],
              LAMBDA k : LapInRange(athlete.laps[k], startDate, endDate))

\* The 'Lap Time' column taken as the lap's own total time.
ExportLapTime_Cumulative(athlete, originalLapIndex) ==
    athlete.laps[originalLapIndex].totalTime

\* The 'Lap Time' column of the lap at originalLapIndex of athlete.laps.
ExportLapTime(athlete, originalLapIndex) ==
    IF originalLapIndex > 1
    THEN athlete.laps[originalLapIndex].totalTime
             - athlete.laps[originalLapIndex - 1].totalTime
    ELSE athlete.laps[originalLapIndex].totalTime

\* The rows handleDownload writes for one athlete.
ExportRows(athlete, startDate, endDate) ==
    LET lapsInRange == LapsInRange(athlete, startDate, endDate)
    IN  [j \in DOMAIN lapsInRange |->
            LET lap == athlete.laps[lapsInRange[j]]
            IN  [lapNumber |-> lap.lapNumber,
                 totalDistance |-> lap.totalDistance,
                 lapTime |-> ExportLapTime(athlete, lapsInRange[j]),
                 totalTime |-> lap.totalTime,
                 timestamp |-> lap.timestamp]]

\* handleDownload: one section for every athlete with a lap in range; an empty
\* result is the 'No data available' alert.
handleDownload(list, startDate, endDate) ==
    LET sections == [i \in DOMAIN list |->
                        [name |-> list[i].name,
                         rows |-> ExportRows(list[i], startDate, endDate)]]
    IN  SelectSeq(sections, LAMBDA section : section.rows # <<>>)

(* ------------------------------ properties ---------------------------- *)
Min(a, b) == IF a <= b THEN a ELSE b
LastLap(athlete) == athlete.laps[Len(athlete.laps)]
\* The athlete is in distance mode and its last lap has reached the target.
RaceComplete(athlete) ==
    /\ athlete.targetDistance > 0
    /\ Len(athlete.laps) > 0
    /\ LastLap(athlete).totalDistance >= athlete.targetDistance
\* The athletes the last command addressed.
Addressed == { athletes[i] : i \in Positions(athletes, last.id) }

\* C1: every athlete's laps have non-decreasing totalDistance, and in distance
\* mode no lap's totalDistance exceeds the athlete's current targetDistance.
C1_DistanceMonotoneAndCapped ==
    \A i \in DOMAIN athletes :
        LET a == athletes[i] IN
        /\ \A k \in 1 .. (Len(a.laps) - 1) :
               a.laps[k].totalDistance <= a.laps[k + 1].totalDistance
        /\ a.targetDistance > 0 =>
               \A k \in DOMAIN a.laps : a.laps[k].totalDistance <= a.targetDistance

\* C2: a Lap or a Stop addressed to an athlete whose race is complete leaves the
\* athlete's laps as they were.
C2_NoLapAfterComplete ==
    [][\A i \in DOMAIN athletes :
          (/\ last'.op \in {"lap", "stop"}
           /\ last'.id = athletes[i].id
           /\ RaceComplete(athletes[i]))
          => (/\ i \in DOMAIN athletes'
              /\ athletes'[i].laps = athletes[i].laps)]_vars

\* C2 witness: a Stop has just been applied to a running athlete whose race was
\* complete, and it appended no lap.
C2_Witness ==
    /\ last.op = "stop"
    /\ last.wasRunning
    /\ \E a \in Addressed : RaceComplete(a) /\ Len(a.laps) = last.lapsBefore

\* C3: in a race whose distances are not edited, with targetDistance T > 0 and
\* lapDistance L > 0, the k-th lap has lapNumber k and totalDistance min(k*L, T),
\* and there are never more than ceil(T/L) laps.
C3_KthLap ==
    \A i \in DOMAIN athletes :
        LET a == athletes[i] IN
        (a.targetDistance > 0 /\ a.lapDistance > 0) =>
            /\ \A k \in DOMAIN a.laps :
                   /\ a.laps[k].lapNumber = k
                   /\ a.laps[k].totalDistance = Min(k * a.lapDistance, a.targetDistance)
            /\ Len(a.laps) > 0 => (Len(a.laps) - 1) * a.lapDistance < a.targetDistance

\* C3 witness: target 3 in laps of 2 gave the laps 2 and 3, and a further Lap on
\* the running athlete appended nothing.
C3_Witness ==
    /\ last.op = "lap"
    /\ last.wasRunning
    /\ last.lapsBefore = 2
    /\ \E a \in Addressed :
           /\ a.targetDistance = 3 /\ a.lapDistance = 2
           /\ Len(a.laps) = 2
           /\ a.laps[1].totalDistance = 2 /\ a.laps[2].totalDistance = 3

\* C4: every lap of an athlete in simple mode (targetDistance 0) has totalDistance 0.
C4_SimpleModeZeroDistance ==
    \A i \in DOMAIN athletes :
        athletes[i].targetDistance = 0 =>
            \A k \in DOMAIN athletes[i].laps : athletes[i].laps[k].totalDistance = 0

\* C5: the lap numbers of every athlete are exactly 1 .. laps.length, in order.
C5_LapNumbers ==
    \A i \in DOMAIN athletes :
        \A k \in DOMAIN athletes[i].laps : athletes[i].laps[k].lapNumber = k

\* C5 witness: an athlete holds two laps, the second one appended by a Stop.
C5_Witness ==
    /\ last.op = "stop"
    /\ last.lapsBefore = 1
    /\ \E a \in Addressed : Len(a.laps) = 2

\* C6: the totalTime of every athlete's laps is non-decreasing in lap order.
C6_TotalTimeMonotone ==
    \A i \in DOMAIN athletes :
        \A k \in 1 .. (Len(athletes[i].laps) - 1) :
            athletes[i].laps[k].totalTime <= athletes[i].laps[k + 1].totalTime

\* C6 witness: an athlete that already had a lap was started again, and the Lap
\* right after that Start appended its second lap.
C6_Witness ==
    /\ last.op = "lap"
    /\ last.afterStart
    /\ last.lapsBefore = 1
    /\ \E a \in Addressed : Len(a.laps) = 2

\* C7: an athlete's startTime is present if and only if the athlete is running.
C7_StartTimeIffRunning ==
    \A i \in DOMAIN athletes :
        (athletes[i].startTime # Null) <=> athletes[i].isRunning

\* C7 witness: a running athlete has just been stopped.
C7_Witness ==
    /\ last.op = "stop"
    /\ last.wasRunning
    /\ \E a \in Addressed : ~a.isRunning /\ a.startTime = Null

\* C8: right after a Reset the addressed athlete has time 0, no laps, is not
\* running and has no startTime.
C8_ResetClears ==
    last.op = "reset" =>
        \A a \in Addressed :
            a.time = 0 /\ a.laps = <<>> /\ ~a.isRunning /\ a.startTime = Null

\* C8 witness: a Reset has just been applied to a running athlete that had laps
\* and a time above 0.
C8_Witness ==
    /\ last.op = "reset"
    /\ last.wasRunning
    /\ last.lapsBefore > 0
    /\ last.timeBefore > 0
    /\ Addressed # {}

\* C9 as stated: a Start followed at once by a Stop leaves time 0 and, in distance
\* mode with lapDistance <= targetDistance, has appended exactly one lap, whose
\* totalDistance is min(lapDistance, targetDistance).
C9_StartStop ==
    (last.op = "stop" /\ last.afterStart) =>
        \A a \in Addressed :
            /\ a.time = 0
            /\ (a.targetDistance > 0 /\ a.lapDistance <= a.targetDistance) =>
                   /\ Len(a.laps) = last.lapsBefore + 1
                   /\ LastLap(a).totalDistance = Min(a.lapDistance, a.targetDistance)

\* C9 amended: for an athlete that had time 0 and no laps, a Start followed at
\* once by a Stop leaves time 0 and, in distance mode with lapDistance <=
\* targetDistance, leaves exactly one lap, of totalDistance
\* min(lapDistance, targetDistance).
C9_FreshStartStop ==
    (last.op = "stop" /\ last.afterFreshStart) =>
        \A a \in Addressed :
            /\ a.time = 0
            /\ (a.targetDistance > 0 /\ a.lapDistance <= a.targetDistance) =>
                   /\ Len(a.laps) = 1
                   /\ a.laps[1].totalDistance = Min(a.lapDistance, a.targetDistance)

\* C9 witness: a fresh athlete with target 3 and laps of 2 was started and stopped
\* at once, and holds the one lap of distance 2.
C9_Witness ==
    /\ last.op = "stop"
    /\ last.afterFreshStart
    /\ \E a \in Addressed :
           /\ a.targetDistance = 3 /\ a.lapDistance = 2
           /\ a.time = 0
           /\ Len(a.laps) = 1 /\ a.laps[1].totalDistance = 2

\* C10: saving the list and loading it gives the same athletes, each stopped and
\* without startTime, with time and laps as saved.
C10_RoundTrip ==
    LET loaded == LoadAthletes(SaveAthletes(athletes, TRUE)) IN
    /\ Len(loaded) = Len(athletes)
    /\ \A i \in DOMAIN athletes :
           /\ loaded[i].id = athletes[i].id
           /\ ~loaded[i].isRunning
           /\ loaded[i].startTime = Null
           /\ loaded[i].time = athletes[i].time
           /\ loaded[i].laps = athletes[i].laps

\* C10 witness: the list saved in the slot holds an athlete that is running, with
\* a time above 0 and a lap.
C10_Witness ==
    /\ storage = Some(JSONstringify(athletes))
    /\ \E i \in DOMAIN athletes :
           athletes[i].isRunning /\ athletes[i].time > 0 /\ Len(athletes[i].laps) > 0

\* C11 as stated: in every export, each row's Lap Time is its totalTime minus the
\* totalTime of the row before it, and the first row's Lap Time is its totalTime.
C11_LapTimeWithinFilter ==
    \A startDate \in DateInputs, endDate \in DateInputs :
        LET sections == handleDownload(athletes, startDate, endDate) IN
        \A i \in DOMAIN sections :
            LET rows == sections[i].rows IN
            \A j \in DOMAIN rows :
                rows[j].lapTime = IF j > 1
                                  THEN rows[j].totalTime - rows[j - 1].totalTime
                                  ELSE rows[j].totalTime

\* C11: in every export, each row's Lap Time is its totalTime minus the totalTime
\* of the athlete's lap numbered one less, whether or not that lap is in the date
\* range; the Lap Time of the athlete's lap number 1 is its totalTime.
C11_LapTimeWithinAthlete ==
    \A startDate \in DateInputs, endDate \in DateInputs :
        \A i \in DOMAIN athletes :
            LET rows == ExportRows(athletes[i], startDate, endDate)
                laps == athletes[i].laps
            IN  \A j \in DOMAIN rows :
                    /\ rows[j].lapNumber = 1 => rows[j].lapTime = rows[j].totalTime
                    /\ \A k \in DOMAIN laps :
                           laps[k].lapNumber = rows[j].lapNumber - 1
                           => rows[j].lapTime = rows[j].totalTime - laps[k].totalTime

\* An export whose date range leaves out an athlete's first lap, taken at a
\* positive time, and includes its second.
C11_Witness ==
    \E startDate \in DateInputs, endDate \in DateInputs :
        LET sections == handleDownload(athletes, startDate, endDate) IN
        /\ sections # <<>>
        /\ sections[1].rows[1].lapNumber = 2
        /\ sections[1].rows[1].lapTime # sections[1].rows[1].totalTime

\* C12: an Edit addressed to an athlete, Running or Stopped, leaves the athlete's
\* isRunning, startTime, time, laps and id as they were.
C12_EditFrame ==
    [][\A i \in DOMAIN athletes :
          (last'.op = "edit" /\ last'.id = athletes[i].id)
          => (/\ i \in DOMAIN athletes'
              /\ athletes'[i].isRunning = athletes[i].isRunning
              /\ athletes'[i].startTime = athletes[i].startTime
              /\ athletes'[i].time = athletes[i].time
              /\ athletes'[i].laps = athletes[i].laps
              /\ athletes'[i].id = athletes[i].id)]_vars

\* An Edit has changed the target of a running athlete that has a lap and a
\* positive time.
C12_Witness ==
    /\ last.op = "edit"
    /\ last.wasRunning
    /\ last.lapsBefore > 0
    /\ \E a \in Addressed :
           a.isRunning /\ a.time > 0 /\ a.laps # <<>> /\ a.targetDistance = 2

\* C13: every athlete's pbDistance equals its targetDistance.
C13_PbDistanceIsTarget ==
    \A i \in DOMAIN athletes : athletes[i].pbDistance = athletes[i].targetDistance

\* An Edit has given a stopped athlete added with target 3 the target 2.
C13_Witness ==
    /\ last.op = "edit"
    /\ ~last.wasRunning
    /\ \E a \in Addressed :
           /\ a.targetDistance = 2
           /\ a.pbDistance = 2
           /\ \E k \in DOMAIN a.laps : a.laps[k].totalDistance = 3

\* The command of the step is applied to the in-memory list.
Applied ==
    /\ last'.op = "add" =>
           /\ Len(athletes') = Len(athletes) + 1
           /\ athletes'[Len(athletes')].id = last'.id
    /\ last'.op = "remove" => Positions(athletes', last'.id) = {}
    /\ last'.op = "load" => athletes' = LoadAthletes(storage)
    /\ last'.op = "tick" =>
           athletes' = [i \in DOMAIN athletes |-> RefreshAthlete(athletes[i])]
    /\ \A i \in Positions(athletes, last'.id) :
           /\ last'.op \in {"start", "stop"} =>
                  athletes'[i] = StartStopAthlete(athletes[i])
           /\ last'.op = "lap" => athletes'[i] = LapAthlete(athletes[i])
           /\ last'.op = "reset" => athletes'[i] = ResetAthlete(athletes[i])
           /\ last'.op = "edit" =>
                  /\ athletes'[i].targetDistance \in EditTargets
                  /\ athletes'[i].lapDistance \in EditLaps

C15_StopFreezesElapsed ==
    [][\A i \in DOMAIN athletes :
          /\ (last'.op = "stop" /\ last'.id = athletes[i].id /\ athletes[i].isRunning)
             => (/\ ~athletes'[i].isRunning
                 /\ athletes'[i].time = now - athletes[i].startTime[1]
                 /\ Len(athletes'[i].laps) > Len(athletes[i].laps)
                    => LastLap(athletes'[i]).totalTime = now - athletes[i].startTime[1])
          /\ (last'.op = "tick" /\ ~athletes[i].isRunning)
             => athletes'[i].time = athletes[i].time]_vars

\* C16: a Start at clock value s of a Stopped athlete with time T sets startTime
\* to s - T, and a refresh tick at clock value n of a Running athlete sets its time
\* to n - startTime, which is T + (n - s): the time spent Stopped is not counted.
C16_ResumeContinues ==
    [][\A i \in DOMAIN athletes :
          /\ (last'.op = "start" /\ last'.id = athletes[i].id)
             => (/\ athletes'[i].isRunning
                 /\ athletes'[i].startTime = Some(now - athletes[i].time)
                 /\ athletes'[i].time = athletes[i].time)
          /\ (last'.op = "tick" /\ athletes[i].isRunning)
             => (/\ athletes'[i].startTime = athletes[i].startTime
                 /\ athletes'[i].time = now - athletes[i].startTime[1])]_vars

\* A refresh tick has acted on an athlete that was stopped with a positive time,
\* stayed stopped while the clock moved, and was started again: its startTime is
\* later than the one its last lap was taken under, and its time has grown past
\* that lap's.
C16_Witness ==
    /\ last.op = "tick"
    /\ \E i \in DOMAIN athletes :
           LET a == athletes[i] IN
           /\ a.isRunning
           /\ a.laps # <<>>
           /\ LastLap(a).totalTime > 0
           /\ a.startTime[1] > LastLap(a).timestamp - LastLap(a).totalTime
           /\ a.time > LastLap(a).totalTime
           /\ a.time = now - a.startTime[1]

\* C17: a Lap addressed to a Stopped athlete leaves the athlete as it was; a Lap
\* addressed to a Running athlete leaves its isRunning, startTime and time as they
\* were and appends at most one lap to its laps.
C17_LapFrame ==
    [][\A i \in DOMAIN athletes :
          (last'.op = "lap" /\ last'.id = athletes[i].id)
          => IF athletes[i].isRunning
             THEN /\ athletes'[i].isRunning = athletes[i].isRunning
                  /\ athletes'[i].startTime = athletes[i].startTime
                  /\ athletes'[i].time = athletes[i].time
                  /\ \/ athletes'[i].laps = athletes[i].laps
                     \/ /\ Len(athletes'[i].laps) = Len(athletes[i].laps) + 1
                        /\ SubSeq(athletes'[i].laps, 1, Len(athletes[i].laps))
                               = athletes[i].laps
             ELSE athletes'[i] = athletes[i]]_vars

\* A Lap has been addressed to a stopped athlete whose race is not complete.
C17_Witness ==
    /\ last.op = "lap"
    /\ ~last.wasRunning
    /\ \E a \in Addressed :
           ~a.isRunning /\ a.time > 0 /\ a.laps # <<>> /\ ~RaceComplete(a)

\* C18: a Start, Stop, Lap, Reset or Edit addressed to an id leaves every athlete
\* with another id as it was, so it changes nothing when no athlete has the id; a
\* refresh tick changes at most the time of an athlete, and only of a Running one.
C18_OtherAthletesUntouched ==
    [][/\ last'.op \in {"start", "stop", "lap", "reset", "edit"}
          => (/\ DOMAIN athletes' = DOMAIN athletes
              /\ \A i \in DOMAIN athletes :
                     athletes[i].id # last'.id => athletes'[i] = athletes[i]
              /\ Positions(athletes, last'.id) = {} => athletes' = athletes)
       /\ last'.op = "tick"
          => (/\ DOMAIN athletes' = DOMAIN athletes
              /\ \A i \in DOMAIN athletes :
                     /\ athletes'[i] = [athletes[i] EXCEPT !.time = athletes'[i].time]
                     /\ ~athletes[i].isRunning => athletes'[i] = athletes[i])]_vars

\* A Reset has been addressed to one of two athletes while the other is running
\* with a lap and a positive time.
C18_Witness ==
    /\ last.op = "reset"
    /\ last.wasRunning
    /\ Len(athletes) = 2
    /\ \E i \in DOMAIN athletes :
           /\ athletes[i].id # last.id
           /\ athletes[i].isRunning
           /\ athletes[i].time > 0
           /\ athletes[i].laps # <<>>

\* C19: within a run (between two loads) the id counter never goes down; an Add
\* gives the new athlete the counter's value, which is greater than every id in
\* the list, and moves the counter up; the ids of the list are pairwise distinct
\* and all below the counter, so the id of a removed athlete is not assigned again.
C19_IdsFresh ==
    [][/\ last'.op # "load" => nextId' >= nextId
       /\ last'.op = "add"
          => (/\ athletes'[Len(athletes')].id = nextId
              /\ nextId' = nextId + 1
              /\ \A i \in DOMAIN athletes :
                     athletes[i].id < athletes'[Len(athletes')].id)
       /\ \A i \in DOMAIN athletes' : athletes'[i].id < nextId'
       /\ \A i \in DOMAIN athletes', j \in DOMAIN athletes' :
              i # j => athletes'[i].id # athletes'[j].id]_vars

\* An athlete has been added after the athlete with id 0 was removed in the same
\* run: it is alone in the list and has id 1.
C19_Witness ==
    /\ last.op = "add"
    /\ Len(athletes) = 1
    /\ athletes[1].id = 1
    /\ nextId = 2

\* C20: whatever was typed into the forms, every athlete has lapDistance > 0 and
\* targetDistance >= 0.
C20_DistancesInRange ==
    \A i \in DOMAIN athletes :
        athletes[i].lapDistance > 0 /\ athletes[i].targetDistance >= 0

====
